---- MODULE Spec2Model ----
(***************************************************************************)
(* Conversion orchestration of the audio-converter gateway.                *)
(*                                                                         *)
(* Each request slot r runs one HTTP handler (processAudio,                *)
(* processGifToMp4, processVideoToMp4, processImageToPng) from entry to    *)
(* its response.  A handler is cut at its blocking calls: the temp-file    *)
(* system calls, and the wait for the external ffmpeg process.  The        *)
(* external process, the filesystem's failures and the remote side of      *)
(* input acquisition are the environment: their outcomes are chosen        *)
(* nondeterministically.                                                   *)
(*                                                                         *)
(* Byte payloads are sequences over Bytes.  The diagnostic text (ffmpeg's  *)
(* stderr) is a sequence of tokens: the literal "time=", a timestamp       *)
(* hh:mm:ss.cc written <<hh, mm, ss, cc>>, or other text.                   *)
(***************************************************************************)
EXTENDS Integers, Sequences, FiniteSets, TLC

VARIABLES
    apiKey,        \* the configured API_KEY ("" when unset)
    pc,            \* per request: position in its handler
    endpoint,      \* per request: which handler serves it
    outputFormat,  \* per request: the output_format form field (audio)
    inputData,     \* per request: the acquired payload
    ioMode,        \* per request: "none", "Pipe" or "TempFile"
    cmdArgs,       \* per request: the ffmpeg argument list built
    spawns,        \* per request: number of cmd.Run calls
    inputPath,     \* per request: temp input path, NoPath before creation
    outputPath,    \* per request: temp output path, NoPath before creation
    fs,            \* the temp directory: path -> File(content) or Absent
    exitStatus,    \* per request: "none" until the process exits, then
                   \* "zero" or "nonzero"
    outBuffer,     \* per request: bytes captured from stdout
    errBuffer,     \* per request: text captured from stderr
    result,        \* per request: what the convert* function returned
    response,      \* per request: the HTTP response written
    reply,         \* per request: the remote server's answer to the
                   \* handler's GET, NoReply while none is pending
    pool,          \* bufferPool: the buffers parked in it
    made,          \* number of buffers bufferPool's New has made
    held,          \* per request: the pooled buffers its conversion holds
    pipes,         \* per request: the OS pipes and copying goroutines of a
                   \* cmd.Run followed step by step, NoPipes otherwise
    request        \* per request: what the client sent, the apikey header
                   \* and the file, base64 and url form fields

vars == <<apiKey, pc, endpoint, outputFormat, inputData, ioMode, cmdArgs,
          spawns, inputPath, outputPath, fs, exitStatus, outBuffer, errBuffer,
          result, response, reply, pool, made, held, pipes, request>>

(***************************************************************************)
(* Bounds of the model.                                                    *)
(***************************************************************************)
NumReqs == 2
NumPaths == 2
MaxPayload == 1
MaxOut == 1
MaxDiagLen == 3
MaxParseLen == 6

Reqs == 1 .. NumReqs
\* The names os.CreateTemp makes: its pattern with the * replaced by a
\* random number, one of NumPaths here.
Patterns ==
    {"input-*.gif", "input-*.mp4", "input-*", "output-*.mp4", "output-*.png"}
Paths == Patterns \X (1 .. NumPaths)
PathsOf(pattern) == {p \in Paths : p[1] = pattern}
Bytes == {1, 2}

NoPath == <<"", 0>>
Absent == [exists |-> FALSE, data |-> <<>>]
File(data) == [exists |-> TRUE, data |-> data]
NoDuration == -1

\* All sequences over S of length at most n.
SeqsUpTo(S, n) == UNION {[1 .. k -> S] : k \in 0 .. n}

Payloads == SeqsUpTo(Bytes, MaxPayload)
Outputs == SeqsUpTo(Bytes, MaxOut)

(***************************************************************************)
(* Diagnostic text.                                                        *)
(***************************************************************************)
Marker == <<"time=">>
OtherText == <<"N/A">>
Stamps == {<<1, 2, 3, 50>>, <<0, 0, 7, 99>>}
Tokens == {Marker, OtherText} \cup Stamps
\* The stderr texts a served request's process writes (one timestamp value
\* is enough there), and the texts duration extraction is run over.
DiagTexts == SeqsUpTo({Marker, OtherText, <<0, 0, 7, 99>>}, MaxDiagLen)
\* The texts of a process whose stderr is never parsed (TempFile mode): it is
\* only passed on as the details of an error.
PlainTexts == SeqsUpTo({OtherText}, MaxDiagLen)
\* What a parked buffer may still hold from its last use.
StaleBytes == {<<>>, <<1>>}
StaleTexts == {<<>>, <<OtherText>>}
ParseTexts == SeqsUpTo(Tokens, MaxParseLen)

\* strings.Split(text, "time="): the pieces between the markers, in order;
\* n markers give n+1 pieces.
RECURSIVE SplitFrom(_, _, _)
SplitFrom(text, i, piece) ==
    IF i > Len(text) THEN <<piece>>
    ELSE IF text[i] = Marker THEN <<piece>> \o SplitFrom(text, i + 1, <<>>)
    ELSE SplitFrom(text, i + 1, Append(piece, text[i]))

SplitTime(text) == SplitFrom(text, 1, <<>>)

\* regexp (\d+):(\d+):(\d+\.\d+) FindStringSubmatch: the leftmost timestamp
\* of the piece as <<whole, hours, minutes, seconds.cc>>, <<>> when none.
FindStringSubmatch(piece) ==
    LET hits == {i \in 1 .. Len(piece) : piece[i] \in Stamps} IN
    IF hits = {} THEN <<>>
    ELSE LET i == CHOOSE j \in hits : \A k \in hits : j <= k
             t == piece[i] IN
         <<t, t[1], t[2], <<t[3], t[4]>>>>

\* int(hours*3600 + minutes*60 + seconds): the float sum truncated; the
\* seconds group is ss.cc, carried here in hundredths.
DurationOf(matches) ==
    (matches[2] * 360000 + matches[3] * 6000
        + matches[4][1] * 100 + matches[4][2]) \div 100

(***************************************************************************)
(* What a convert* function hands back: a value, an error, or a panic.     *)
(***************************************************************************)
Ok(data, duration) ==
    [kind |-> "ok", msg |-> "", details |-> <<>>, data |-> data,
     duration |-> duration]
Err(msg, details) ==
    [kind |-> "error", msg |-> msg, details |-> details, data |-> <<>>,
     duration |-> 0]
Panic(msg) ==
    [kind |-> "panic", msg |-> msg, details |-> <<>>, data |-> <<>>,
     duration |-> 0]
NoResult ==
    [kind |-> "none", msg |-> "", details |-> <<>>, data |-> <<>>,
     duration |-> 0]

\* The part of convertAudio after cmd.Run returned nil: copy the output,
\* then parse the duration out of the diagnostic text.
ParseDuration(convertedData, outputText) ==
    LET splitTime == SplitTime(outputText) IN
    IF Len(splitTime) < 2 THEN Err("duracao nao encontrada", <<>>)
    ELSE IF Len(splitTime) < 3 THEN Panic("index out of range [2]")
    ELSE LET matches == FindStringSubmatch(splitTime[3]) IN
         IF Len(matches) # 4
         THEN Err("formato de duracao nao encontrado", <<>>)
         ELSE Ok(convertedData, DurationOf(matches))

(***************************************************************************)
(* Dispatch: the argument list each conversion builds.  "<in>" and "<out>" *)
(* stand for the temp-file paths.                                          *)
(***************************************************************************)
Endpoints == {"audio", "gif", "video", "image"}
AudioTags == {"mp3", "wav", "aac", "amr", "m4a", "ogg", "", "mp33"}

\* Mutant of AudioArgs: a tag the switch does not know falls to the mp3
\* template instead of the default profile.
AudioArgsNoDefault(tag) ==
    CASE tag = "wav" -> <<"-i", "pipe:0", "-f", "wav", "pipe:1">>
      [] OTHER -> <<"-i", "pipe:0", "-f", "mp3", "pipe:1">>

\* The switch of convertAudio.
AudioArgs(tag) ==
    CASE tag = "mp3" -> <<"-i", "pipe:0", "-f", "mp3", "pipe:1">>
      [] tag = "wav" -> <<"-i", "pipe:0", "-f", "wav", "pipe:1">>
      [] tag = "aac" ->
           <<"-i", "pipe:0", "-c:a", "aac", "-b:a", "128k", "-f", "adts",
             "pipe:1">>
      [] tag = "amr" ->
           <<"-i", "pipe:0", "-c:a", "libopencore_amrnb", "-b:a", "12.2k",
             "-f", "amr", "pipe:1">>
      [] tag = "m4a" ->
           <<"-i", "pipe:0", "-c:a", "aac", "-b:a", "128k", "-f", "ipod",
             "pipe:1">>
      [] OTHER ->
           <<"-i", "pipe:0", "-c:a", "libopus", "-b:a", "16k", "-vbr", "on",
             "-compression_level", "10", "-ac", "1", "-ar", "16000",
             "-f", "ogg", "pipe:1">>

GifArgs ==
    <<"-i", "<in>", "-movflags", "faststart", "-pix_fmt", "yuv420p",
      "-vf", "scale=trunc(iw/2)*2:trunc(ih/2)*2", "-f", "mp4",
      "-c:v", "libx264", "-preset", "ultrafast", "-crf", "23", "-y",
      "<out>">>

VideoArgs ==
    <<"-i", "<in>", "-movflags", "faststart", "-pix_fmt", "yuv420p",
      "-c:v", "libx264", "-preset", "ultrafast", "-crf", "23",
      "-c:a", "aac", "-b:a", "128k", "-y", "<out>">>

ImageArgs ==
    <<"-i", "<in>", "-f", "image2", "-c:v", "png", "-y", "<out>">>

\* The patterns the three routines give os.CreateTemp (the video routine's
\* input pattern ends in the input_format field, mp4 unless the request
\* says otherwise).
InputPattern(ep) ==
    CASE ep = "gif" -> "input-*.gif"
      [] ep = "video" -> "input-*.mp4"
      [] OTHER -> "input-*"

OutputPattern(ep) ==
    CASE ep = "image" -> "output-*.png"
      [] OTHER -> "output-*.mp4"

TempFileArgs(ep) ==
    CASE ep = "gif" -> GifArgs
      [] ep = "video" -> VideoArgs
      [] OTHER -> ImageArgs

\* The output_format values a request to the endpoint can carry: the form
\* field for audio; the other handlers have one fixed target.
TagsOf(ep) ==
    CASE ep = "audio" -> AudioTags
      [] ep = "image" -> {"png"}
      [] OTHER -> {"mp4"}

(***************************************************************************)
(* The handlers' responses.                                                *)
(***************************************************************************)
APIKeys == {"", "secret"}
Headers == {"", "secret", "wrong"}

(***************************************************************************)
(* What a client sends.  The uploaded file is missing, readable with some  *)
(* content, or fails to read; the base64 field is the empty string (which  *)
(* is also what PostForm gives for a missing field), the encoding of some  *)
(* bytes, or a text that is no base64; the url field is a string.          *)
(***************************************************************************)
NoFile == [kind |-> "none", data |-> <<>>]
Upload(data) == [kind |-> "file", data |-> data]
Unreadable == [kind |-> "unreadable", data |-> <<>>]
NoField == [kind |-> "empty", data |-> <<>>]
Encoded(data) == [kind |-> "encoded", data |-> data]
Garbled == [kind |-> "garbled", data |-> <<>>]
Urls == {"", "http://host/a"}

NoRequest ==
    [apikey |-> "", file |-> NoFile, base64 |-> NoField, url |-> ""]

\* The requests a client may send.
Requests ==
    [apikey : Headers,
     file : {NoFile, Unreadable} \cup {Upload(d) : d \in Payloads},
     base64 : {NoField, Garbled} \cup {Encoded(d) : d \in Payloads},
     url : Urls]

NoResponse == [code |-> 0, by |-> "none"]
Handler(code) == [code |-> code, by |-> "handler"]
Recovery == [code |-> 500, by |-> "recovery"]

\* Mutant of ValidateAPIKey: a server without a configured key lets every
\* request through.
ValidateAPIKeyUnsetIsOpen(key, hdr) ==
    IF key = "" THEN 0
    ELSE IF hdr = "" THEN 401
    ELSE IF hdr # key THEN 401
    ELSE 0

\* validateAPIKey: the status it answers with, 0 when the key is accepted.
ValidateAPIKey(key, hdr) ==
    IF key = "" THEN 500
    ELSE IF hdr = "" THEN 401
    ELSE IF hdr # key THEN 401
    ELSE 0

\* processAudio after convertAudio: an error is answered 500, a value 200.
\* The handler has no recover: a panic unwinds to the router's recovery
\* middleware (gin.Default), which answers 500.
RespondAudio(res) ==
    IF res.kind = "panic" THEN Recovery
    ELSE IF res.kind = "error" THEN Handler(500)
    ELSE Handler(200)

\* processConversion of the gif, video and image handlers: recover answers
\* a panic with 500, an error and an empty value are answered 500.
RespondConversion(res) ==
    IF res.kind = "panic" THEN Handler(500)
    ELSE IF res.kind = "error" THEN Handler(500)
    ELSE IF Len(res.data) = 0 THEN Handler(500)
    ELSE Handler(200)

Respond(ep, res) ==
    IF ep = "audio" THEN RespondAudio(res) ELSE RespondConversion(res)

\* The JSON body of processAudio's 200 answer, built from the handler's
\* locals: the duration and bytes convertAudio returned, and the
\* output_format form field as the request gave it.
AudioBody(r) ==
    [duration |-> result[r].duration, audio |-> result[r].data,
     format |-> outputFormat[r]]

(***************************************************************************)
(* The convert* functions' results.                                        *)
(***************************************************************************)
\* Mutant of ConvertAudioResult: the error of a failed run leaves the
\* captured stderr text out.
ConvertAudioResultNoDetails(ok, out, text) ==
    IF ~ok THEN Err("error during conversion", <<>>)
    ELSE ParseDuration(out, text)

\* convertAudio once cmd.Run has returned.
ConvertAudioResult(ok, out, text) ==
    IF ~ok THEN Err("error during conversion", text)
    ELSE ParseDuration(out, text)

\* Mutant of TempFilesResult: the output artifact is looked for after its
\* removal.
TempFilesResultAfterRemove(ok, file, readOk, text) ==
    IF ~ok THEN Err("error en conversion con archivos temporales", text)
    ELSE Err("error al verificar archivo de salida", <<>>)

\* convert*UsingTempFiles once cmd.Run has returned; file is the output
\* artifact (os.Stat fails when it is absent), readOk whether os.ReadFile
\* works.
TempFilesResult(ok, file, readOk, text) ==
    IF ~ok THEN Err("error en conversion con archivos temporales", text)
    ELSE IF ~file.exists
    THEN Err("error al verificar archivo de salida", <<>>)
    ELSE IF ~readOk THEN Err("error al leer archivo de salida", <<>>)
    ELSE IF Len(file.data) = 0
    THEN Err("la conversion produjo un archivo de salida vacio", <<>>)
    ELSE Ok(file.data, NoDuration)

\* Mutant of Cleanup: only the input artifact's removal is deferred.
CleanupInputOnly(f, inP, outP) ==
    [p \in Paths |-> IF p = inP THEN Absent ELSE f[p]]

\* The deferred os.Remove calls: inP and outP are the paths whose defer has
\* been registered (NoPath when not).
Cleanup(f, inP, outP) ==
    [p \in Paths |-> IF p \in {inP, outP} THEN Absent ELSE f[p]]

(***************************************************************************)
(* bufferPool, a sync.Pool of *bytes.Buffer.  Buffers are numbered in the  *)
(* order New makes them.  A parked buffer keeps what its last user left in *)
(* it; buffers being interchangeable, Get takes the lowest parked one.     *)
(***************************************************************************)
NoBuf == 0
NoBufs == [out |-> NoBuf, err |-> NoBuf]

\* Mutant of Get: the first buffer made is handed out whether it is parked
\* or not.
GetFirstMade(p, n) == IF n > 0 THEN 1 ELSE n + 1

\* bufferPool.Get with p parked and n made so far: a parked buffer, or a
\* new one when none is parked.
Get(p, n) ==
    IF p # {} THEN CHOOSE b \in p : \A c \in p : b <= c ELSE n + 1

\* Mutant of Put: the buffer is not parked.
PutDropped(p, b) == p

\* bufferPool.Put.
Put(p, b) == p \cup {b}

\* Mutant of Reset: the buffer keeps its contents.
ResetSkipped(content) == content

\* bytes.Buffer.Reset.
Reset(content) == <<>>

\* What a buffer just got may hold: nothing when New made it, else what an
\* earlier conversion left (any of leftovers).
ContentsOf(b, p, leftovers) == IF b \in p THEN leftovers ELSE {<<>>}

\* convertAudio's two Gets and two Resets (the deferred Puts are part of
\* its return).
TakeBuffers(r) ==
    LET o == Get(pool, made)
        p1 == pool \ {o}
        n1 == IF pool = {} THEN made + 1 ELSE made
        e == Get(p1, n1)
    IN  /\ held' = [held EXCEPT ![r] = [out |-> o, err |-> e]]
        /\ pool' = p1 \ {e}
        /\ made' = IF p1 = {} THEN n1 + 1 ELSE n1
        /\ \E stale \in ContentsOf(o, pool, StaleBytes) :
             outBuffer' = [outBuffer EXCEPT ![r] = Reset(stale)]
        /\ \E stale \in ContentsOf(e, p1, StaleTexts) :
             errBuffer' = [errBuffer EXCEPT ![r] = Reset(stale)]

(***************************************************************************)
(* Remote fetch: what the remote server answers to the handler's GET.      *)
(***************************************************************************)
Statuses == {200, 404}
NoReply == [kind |-> "none", status |-> 0, body |-> <<>>]
FetchError == [kind |-> "error", status |-> 0, body |-> <<>>]
Answer(status, body) == [kind |-> "answer", status |-> status, body |-> body]

(***************************************************************************)
(* The pipes of a Pipe-mode cmd.Run.  Stdin, Stdout and Stderr of the      *)
(* command are not files, so cmd.Run makes three OS pipes and three        *)
(* copying goroutines.  stdin, stdout, stderr are what the pipes hold;     *)
(* sent counts the payload bytes copied into stdin; wdone, odone, edone    *)
(* say which copying goroutines have finished; want is the system call the *)
(* process makes next; wrote, wroteErr, eof are the process's own counts.  *)
(* PipeCap stands for the capacity of an OS pipe, scaled to the payloads   *)
(* of the model: the payloads and outputs followed through the pipes are   *)
(* up to one byte longer.                                                  *)
(***************************************************************************)
PipeCap == 1

NoPipes ==
    [stdin |-> <<>>, sent |-> 0, wdone |-> FALSE, stdout |-> <<>>,
     odone |-> FALSE, stderr |-> <<>>, edone |-> FALSE, want |-> "none",
     wrote |-> 0, wroteErr |-> 0, eof |-> FALSE]

(***************************************************************************)
(* Initial state: the server is up with its API_KEY read from the          *)
(* environment, no request in progress, the temp directory empty.          *)
(***************************************************************************)
Init ==
    /\ apiKey \in APIKeys
    /\ pc = [r \in Reqs |-> "idle"]
    /\ endpoint = [r \in Reqs |-> "audio"]
    /\ outputFormat = [r \in Reqs |-> ""]
    /\ inputData = [r \in Reqs |-> <<>>]
    /\ ioMode = [r \in Reqs |-> "none"]
    /\ cmdArgs = [r \in Reqs |-> <<>>]
    /\ spawns = [r \in Reqs |-> 0]
    /\ inputPath = [r \in Reqs |-> NoPath]
    /\ outputPath = [r \in Reqs |-> NoPath]
    /\ fs = [p \in Paths |-> Absent]
    /\ exitStatus = [r \in Reqs |-> "none"]
    /\ outBuffer = [r \in Reqs |-> <<>>]
    /\ errBuffer = [r \in Reqs |-> <<>>]
    /\ result = [r \in Reqs |-> NoResult]
    /\ response = [r \in Reqs |-> NoResponse]
    /\ reply = [r \in Reqs |-> NoReply]
    /\ pool = {}
    /\ made = 0
    /\ held = [r \in Reqs |-> NoBufs]
    /\ pipes = [r \in Reqs |-> NoPipes]
    /\ request = [r \in Reqs |-> NoRequest]

\* The convert* call of request r returns (or panics with) res, leaving the
\* temp directory as f; the handler writes its response.
Return(r, res, f) ==
    /\ result' = [result EXCEPT ![r] = res]
    /\ response' = [response EXCEPT ![r] = Respond(endpoint[r], res)]
    /\ fs' = f
    /\ pc' = [pc EXCEPT ![r] = "done"]

(***************************************************************************)
(* Handler entry: validateAPIKey, then input acquisition.  The acquisition *)
(* fails at once (answered 400), yields a payload from the request itself, *)
(* or goes to fetch the URL the request names.                             *)
(***************************************************************************)
Arrive(r) ==
    /\ pc[r] = "idle"
    /\ \E ep \in Endpoints, hdr \in Headers :
         /\ endpoint' = [endpoint EXCEPT ![r] = ep]
         /\ request' = [request EXCEPT ![r].apikey = hdr]
         /\ \/ /\ ValidateAPIKey(apiKey, hdr) # 0
               /\ response' =
                    [response EXCEPT
                       ![r] = Handler(ValidateAPIKey(apiKey, hdr))]
               /\ pc' = [pc EXCEPT ![r] = "done"]
               /\ UNCHANGED <<inputData, outputFormat>>
            \/ /\ ValidateAPIKey(apiKey, hdr) = 0
               /\ response' = [response EXCEPT ![r] = Handler(400)]
               /\ pc' = [pc EXCEPT ![r] = "done"]
               /\ UNCHANGED <<inputData, outputFormat>>
            \/ /\ ValidateAPIKey(apiKey, hdr) = 0
               /\ \E data \in Payloads, tag \in TagsOf(ep) :
                    /\ inputData' = [inputData EXCEPT ![r] = data]
                    /\ outputFormat' = [outputFormat EXCEPT ![r] = tag]
               /\ pc' = [pc EXCEPT ![r] = "convert"]
               /\ UNCHANGED response
            \/ /\ ValidateAPIKey(apiKey, hdr) = 0
               /\ \E tag \in TagsOf(ep) :
                    outputFormat' = [outputFormat EXCEPT ![r] = tag]
               /\ pc' = [pc EXCEPT ![r] = "fetching"]
               /\ UNCHANGED <<inputData, response>>
    /\ UNCHANGED <<apiKey, ioMode, cmdArgs, spawns, inputPath, outputPath, fs,
                   exitStatus, outBuffer, errBuffer, result>>
    /\ UNCHANGED <<reply, pool, made, held>>
    /\ UNCHANGED pipes

(***************************************************************************)
(* Remote fetch.  The audio handler (through getInputData) and the video   *)
(* handler fetch with fetchAudioFromURL, the gif handler with              *)
(* fetchGifFromURL, the image handler with fetchImageFromURL; only the     *)
(* last two look at the status of the answer.                              *)
(***************************************************************************)
ChecksStatus(ep) == ep \in {"gif", "image"}

\* The remote server answers the GET, or the transfer fails.
RemoteReplies(r) ==
    /\ pc[r] = "fetching"
    /\ \E a \in {FetchError}
                 \cup {Answer(st, body) : st \in Statuses, body \in Payloads} :
         reply' = [reply EXCEPT ![r] = a]
    /\ pc' = [pc EXCEPT ![r] = "fetched"]
    /\ UNCHANGED <<apiKey, endpoint, outputFormat, inputData, ioMode, cmdArgs,
                   spawns, inputPath, outputPath, fs, exitStatus, outBuffer,
                   errBuffer, result, response, pool, made, held>>
    /\ UNCHANGED pipes
    /\ UNCHANGED request

\* The fetch function returns to the handler: an error is answered 400,
\* a body becomes the payload.
FetchReturns(r) ==
    /\ pc[r] = "fetched"
    /\ IF \/ reply[r].kind = "error"
          \/ ChecksStatus(endpoint[r]) /\ reply[r].status # 200
       THEN /\ response' = [response EXCEPT ![r] = Handler(400)]
            /\ pc' = [pc EXCEPT ![r] = "done"]
            /\ UNCHANGED inputData
       ELSE /\ inputData' = [inputData EXCEPT ![r] = reply[r].body]
            /\ pc' = [pc EXCEPT ![r] = "convert"]
            /\ UNCHANGED response
    /\ reply' = [reply EXCEPT ![r] = NoReply]
    /\ UNCHANGED <<apiKey, endpoint, outputFormat, ioMode, cmdArgs, spawns,
                   inputPath, outputPath, fs, exitStatus, outBuffer,
                   errBuffer, result, pool, made, held>>
    /\ UNCHANGED pipes
    /\ UNCHANGED request

(***************************************************************************)
(* convertAudio up to cmd.Run: build the command for the output format,    *)
(* take and reset the two buffers, wire the pipes, start the process.      *)
(***************************************************************************)
ConvertAudio(r) ==
    /\ pc[r] = "convert"
    /\ endpoint[r] = "audio"
    /\ cmdArgs' = [cmdArgs EXCEPT ![r] = AudioArgs(outputFormat[r])]
    /\ ioMode' = [ioMode EXCEPT ![r] = "Pipe"]
    /\ TakeBuffers(r)
    /\ spawns' = [spawns EXCEPT ![r] = @ + 1]
    /\ pc' = [pc EXCEPT ![r] = "running"]
    /\ UNCHANGED <<apiKey, endpoint, outputFormat, inputData, inputPath,
                   outputPath, fs, exitStatus, result, response, reply>>
    /\ UNCHANGED pipes
    /\ UNCHANGED request

\* convertGifToMp4 rejects an empty payload.
RejectsEmpty(ep) == ep = "gif"

(***************************************************************************)
(* convertGifToMp4, convertVideoToMp4, convertImageToPng: gif rejects an   *)
(* empty payload; all three then go through temp files.                    *)
(***************************************************************************)
ConvertToFile(r) ==
    /\ pc[r] = "convert"
    /\ endpoint[r] # "audio"
    /\ IF RejectsEmpty(endpoint[r]) /\ Len(inputData[r]) = 0
       THEN /\ Return(r, Err("datos de entrada vacios", <<>>), fs)
            /\ UNCHANGED ioMode
       ELSE /\ ioMode' = [ioMode EXCEPT ![r] = "TempFile"]
            /\ pc' = [pc EXCEPT ![r] = "createIn"]
            /\ UNCHANGED <<fs, result, response>>
    /\ UNCHANGED <<apiKey, endpoint, outputFormat, inputData, cmdArgs, spawns,
                   inputPath, outputPath, exitStatus, outBuffer, errBuffer>>
    /\ UNCHANGED <<reply, pool, made, held>>
    /\ UNCHANGED pipes
    /\ UNCHANGED request

(***************************************************************************)
(* convert*UsingTempFiles, one action per blocking call.  The three        *)
(* routines (gif, video, image) run the same steps and differ in the       *)
(* argument list only.                                                     *)
(***************************************************************************)
\* os.CreateTemp for the input artifact; its removal is deferred once it
\* exists.
CreateInput(r) ==
    /\ pc[r] = "createIn"
    /\ \/ /\ Return(r, Err("error al crear archivo temporal de entrada",
                           <<>>), fs)
          /\ UNCHANGED inputPath
       \/ \E p \in PathsOf(InputPattern(endpoint[r])) :
            /\ ~fs[p].exists
            /\ fs' = [fs EXCEPT ![p] = File(<<>>)]
            /\ inputPath' = [inputPath EXCEPT ![r] = p]
            /\ pc' = [pc EXCEPT ![r] = "writeIn"]
            /\ UNCHANGED <<result, response>>
    /\ UNCHANGED <<apiKey, endpoint, outputFormat, inputData, ioMode, cmdArgs,
                   spawns, outputPath, exitStatus, outBuffer, errBuffer>>
    /\ UNCHANGED <<reply, pool, made, held>>
    /\ UNCHANGED pipes
    /\ UNCHANGED request

\* Mutant of WriteInput: the error of a short write is dropped and the
\* conversion goes on with the prefix written.
WriteInputUnchecked(r) ==
    /\ pc[r] = "writeIn"
    /\ \E k \in 0 .. Len(inputData[r]) :
         fs' = [fs EXCEPT ![inputPath[r]] = File(SubSeq(inputData[r], 1, k))]
    /\ pc' = [pc EXCEPT ![r] = "createOut"]
    /\ UNCHANGED <<apiKey, endpoint, outputFormat, inputData, ioMode, cmdArgs,
                   spawns, inputPath, outputPath, exitStatus, outBuffer,
                   errBuffer, result, response, reply, pool, made, held,
                   pipes>>
    /\ UNCHANGED request

\* inputFile.Write then Close; a failed write may leave a prefix behind.
WriteInput(r) ==
    /\ pc[r] = "writeIn"
    /\ \/ \E k \in 0 .. Len(inputData[r]) :
            Return(r, Err("error al escribir en archivo temporal", <<>>),
                   Cleanup([fs EXCEPT ![inputPath[r]] =
                                File(SubSeq(inputData[r], 1, k))],
                           inputPath[r], NoPath))
       \/ /\ fs' = [fs EXCEPT ![inputPath[r]] = File(inputData[r])]
          /\ pc' = [pc EXCEPT ![r] = "createOut"]
          /\ UNCHANGED <<result, response>>
    /\ UNCHANGED <<apiKey, endpoint, outputFormat, inputData, ioMode, cmdArgs,
                   spawns, inputPath, outputPath, exitStatus, outBuffer,
                   errBuffer>>
    /\ UNCHANGED <<reply, pool, made, held>>
    /\ UNCHANGED pipes
    /\ UNCHANGED request

\* os.CreateTemp for the output artifact, closed at once; its removal is
\* deferred once it exists.
CreateOutput(r) ==
    /\ pc[r] = "createOut"
    /\ \/ /\ Return(r, Err("error al crear archivo temporal de salida", <<>>),
                    Cleanup(fs, inputPath[r], NoPath))
          /\ UNCHANGED outputPath
       \/ \E p \in PathsOf(OutputPattern(endpoint[r])) :
            /\ ~fs[p].exists
            /\ fs' = [fs EXCEPT ![p] = File(<<>>)]
            /\ outputPath' = [outputPath EXCEPT ![r] = p]
            /\ pc' = [pc EXCEPT ![r] = "statIn"]
            /\ UNCHANGED <<result, response>>
    /\ UNCHANGED <<apiKey, endpoint, outputFormat, inputData, ioMode, cmdArgs,
                   spawns, inputPath, exitStatus, outBuffer, errBuffer>>
    /\ UNCHANGED <<reply, pool, made, held>>
    /\ UNCHANGED pipes
    /\ UNCHANGED request

\* os.Stat of the input artifact, then the command is built and cmd.Run
\* starts the process.
StatAndRun(r) ==
    /\ pc[r] = "statIn"
    /\ \/ /\ Return(r, Err("error al verificar archivo de entrada", <<>>),
                    Cleanup(fs, inputPath[r], outputPath[r]))
          /\ UNCHANGED <<cmdArgs, spawns, errBuffer>>
       \/ /\ cmdArgs' = [cmdArgs EXCEPT ![r] = TempFileArgs(endpoint[r])]
          /\ errBuffer' = [errBuffer EXCEPT ![r] = <<>>]
          /\ spawns' = [spawns EXCEPT ![r] = @ + 1]
          /\ pc' = [pc EXCEPT ![r] = "running"]
          /\ UNCHANGED <<fs, result, response>>
    /\ UNCHANGED <<apiKey, endpoint, outputFormat, inputData, ioMode,
                   inputPath, outputPath, exitStatus, outBuffer>>
    /\ UNCHANGED <<reply, pool, made, held>>
    /\ UNCHANGED pipes
    /\ UNCHANGED request

(***************************************************************************)
(* The external process runs and exits.  In Pipe mode it fills the stdout  *)
(* and stderr buffers; in TempFile mode it fills stderr and leaves the     *)
(* output path holding some bytes, or no file.  A write to a bytes.Buffer  *)
(* appends to what it holds.  A process that never exits simply never      *)
(* takes this step.                                                        *)
(***************************************************************************)
ProcessExits(r) ==
    /\ pc[r] = "running"
    /\ \E status \in {"zero", "nonzero"},
          text \in IF ioMode[r] = "Pipe" THEN DiagTexts ELSE PlainTexts :
         /\ exitStatus' = [exitStatus EXCEPT ![r] = status]
         /\ errBuffer' = [errBuffer EXCEPT ![r] = @ \o text]
         /\ IF ioMode[r] = "Pipe"
            THEN /\ \E out \in Outputs :
                      outBuffer' = [outBuffer EXCEPT ![r] = @ \o out]
                 /\ UNCHANGED fs
            ELSE /\ \E file \in {File(d) : d \in Outputs} \cup {Absent} :
                      fs' = [fs EXCEPT ![outputPath[r]] = file]
                 /\ UNCHANGED outBuffer
    /\ pc' = [pc EXCEPT ![r] = "exited"]
    /\ UNCHANGED <<apiKey, endpoint, outputFormat, inputData, ioMode, cmdArgs,
                   spawns, inputPath, outputPath, result, response>>
    /\ UNCHANGED <<reply, pool, made, held>>
    /\ UNCHANGED pipes
    /\ UNCHANGED request

\* Mutant of ConvertAudioReturns: the wait for the process is given up
\* and the conversion returns with what the buffers hold.
ConvertAudioTimesOut(r) ==
    /\ pc[r] \in {"running", "exited"}
    /\ ioMode[r] = "Pipe"
    /\ Return(r, ConvertAudioResult(exitStatus[r] = "zero", outBuffer[r],
                                 errBuffer[r]),
              fs)
    /\ pool' = Put(Put(pool, held[r].err), held[r].out)
    /\ held' = [held EXCEPT ![r] = NoBufs]
    /\ UNCHANGED <<apiKey, endpoint, outputFormat, inputData, ioMode, cmdArgs,
                   spawns, inputPath, outputPath, exitStatus, outBuffer,
                   errBuffer, reply, made>>
    /\ UNCHANGED pipes
    /\ UNCHANGED request

\* convertAudio from the return of cmd.Run to its own return; the deferred
\* Put calls hand the buffers back.
ConvertAudioReturns(r) ==
    /\ pc[r] = "exited"
    /\ ioMode[r] = "Pipe"
    /\ Return(r, ConvertAudioResult(exitStatus[r] = "zero", outBuffer[r],
                                 errBuffer[r]),
              fs)
    /\ pool' = Put(Put(pool, held[r].err), held[r].out)
    /\ held' = [held EXCEPT ![r] = NoBufs]
    /\ UNCHANGED <<apiKey, endpoint, outputFormat, inputData, ioMode, cmdArgs,
                   spawns, inputPath, outputPath, exitStatus, outBuffer,
                   errBuffer, reply, made>>
    /\ UNCHANGED pipes
    /\ UNCHANGED request

\* convert*UsingTempFiles from the return of cmd.Run to its own return:
\* os.Stat and os.ReadFile of the output artifact, then the deferred
\* removals.
TempFilesReturn(r) ==
    /\ pc[r] = "exited"
    /\ ioMode[r] = "TempFile"
    /\ \E readOk \in BOOLEAN :
         Return(r, TempFilesResult(exitStatus[r] = "zero",
                                   fs[outputPath[r]], readOk, errBuffer[r]),
                Cleanup(fs, inputPath[r], outputPath[r]))
    /\ UNCHANGED <<apiKey, endpoint, outputFormat, inputData, ioMode, cmdArgs,
                   spawns, inputPath, outputPath, exitStatus, outBuffer,
                   errBuffer>>
    /\ UNCHANGED <<reply, pool, made, held>>
    /\ UNCHANGED pipes
    /\ UNCHANGED request

\* A panic raised while convert*UsingTempFiles waits in cmd.Run: the
\* deferred removals run while it unwinds, and processConversion recovers.
RunPanics(r) ==
    /\ pc[r] = "running"
    /\ ioMode[r] = "TempFile"
    /\ Return(r, Panic("panic in conversion"),
              Cleanup(fs, inputPath[r], outputPath[r]))
    /\ UNCHANGED <<apiKey, endpoint, outputFormat, inputData, ioMode, cmdArgs,
                   spawns, inputPath, outputPath, exitStatus, outBuffer,
                   errBuffer>>
    /\ UNCHANGED <<reply, pool, made, held>>
    /\ UNCHANGED pipes
    /\ UNCHANGED request

\* The response has gone out; the slot is free for the next request.
Release(r) ==
    /\ pc[r] = "done"
    /\ pc' = [pc EXCEPT ![r] = "idle"]
    /\ endpoint' = [endpoint EXCEPT ![r] = "audio"]
    /\ outputFormat' = [outputFormat EXCEPT ![r] = ""]
    /\ inputData' = [inputData EXCEPT ![r] = <<>>]
    /\ ioMode' = [ioMode EXCEPT ![r] = "none"]
    /\ cmdArgs' = [cmdArgs EXCEPT ![r] = <<>>]
    /\ spawns' = [spawns EXCEPT ![r] = 0]
    /\ inputPath' = [inputPath EXCEPT ![r] = NoPath]
    /\ outputPath' = [outputPath EXCEPT ![r] = NoPath]
    /\ exitStatus' = [exitStatus EXCEPT ![r] = "none"]
    /\ outBuffer' = [outBuffer EXCEPT ![r] = <<>>]
    /\ errBuffer' = [errBuffer EXCEPT ![r] = <<>>]
    /\ result' = [result EXCEPT ![r] = NoResult]
    /\ response' = [response EXCEPT ![r] = NoResponse]
    /\ request' = [request EXCEPT ![r] = NoRequest]
    /\ UNCHANGED <<apiKey, fs, reply, pool, made, held>>
    /\ UNCHANGED pipes

\* One step of request r's handler, or of its process.
Step(r) ==
    \/ RemoteReplies(r)
    \/ FetchReturns(r)
    \/ ConvertAudio(r)
    \/ ConvertToFile(r)
    \/ CreateInput(r)
    \/ WriteInput(r)
    \/ CreateOutput(r)
    \/ StatAndRun(r)
    \/ ProcessExits(r)
    \/ ConvertAudioReturns(r)
    \/ TempFilesReturn(r)
    \/ RunPanics(r)
    \/ Release(r)

\* No request is being served.
Quiet == \A q \in Reqs : pc[q] = "idle"

\* Requests served one at a time: a request arrives when none is in
\* progress.
Next == \E r \in Reqs : (Quiet /\ Arrive(r)) \/ Step(r)

Spec == Init /\ [][Next]_vars

(***************************************************************************)
(* Requests served side by side, each handler on its own goroutine: a      *)
(* request may arrive whatever the others are doing.  To keep the product  *)
(* of the requests' states small the requests are audio and gif requests   *)
(* with a one-byte payload, and the process leaves one of two stderr texts *)
(* and at most one byte of output.  The handlers' own steps are weakly     *)
(* fair (the Go scheduler runs every runnable goroutine); the exit of a    *)
(* process and the answer of a remote server are not: either may never     *)
(* come.                                                                   *)
(***************************************************************************)
ConcReqs == {1, 2}
SmallTexts == {<<>>, <<Marker, Marker, <<0, 0, 7, 99>>>>}
SmallBytes == {<<>>, <<1>>}

\* What the requests and the environment are restricted to.
SmallWorld ==
    \A r \in Reqs :
        /\ endpoint[r] \in {"audio", "gif"}
        /\ pc[r] \in {"fetching", "convert"} =>
               outputFormat[r] \in {"mp3", "mp4"}
        /\ pc[r] = "convert" => inputData[r] = <<1>>
        /\ reply[r].kind = "answer" => reply[r].body = <<1>>
        /\ outBuffer[r] \in SmallBytes
        /\ errBuffer[r] \in SmallTexts
        /\ exitStatus[r] = "nonzero" =>
               outBuffer[r] = <<>> /\ errBuffer[r] = <<>>
        /\ \A p \in Paths : fs[p].data \in SmallBytes

\* The steps request r's handler takes by itself.
HandlerStep(r) ==
    \/ FetchReturns(r)
    \/ ConvertAudio(r)
    \/ ConvertToFile(r)
    \/ CreateInput(r)
    \/ WriteInput(r)
    \/ CreateOutput(r)
    \/ StatAndRun(r)
    \/ ConvertAudioReturns(r)
    \/ TempFilesReturn(r)

NextConc ==
    \E r \in ConcReqs :
        \/ Arrive(r) /\ SmallWorld'
        \/ RemoteReplies(r) /\ SmallWorld'
        \/ ProcessExits(r) /\ SmallWorld'
        \/ RunPanics(r)
        \/ HandlerStep(r)
        \/ Release(r)

SpecConc ==
    /\ Init
    /\ [][NextConc]_vars
    /\ \A r \in ConcReqs : WF_vars(HandlerStep(r))

(***************************************************************************)
(* Duration extraction on its own: one audio conversion whose process has  *)
(* just exited with status 0, for every diagnostic text up to MaxParseLen  *)
(* tokens; the step is convertAudio's return.                              *)
(***************************************************************************)
InitParse ==
    /\ apiKey = "secret"
    /\ pc = [r \in Reqs |-> IF r = 1 THEN "exited" ELSE "idle"]
    /\ endpoint = [r \in Reqs |-> "audio"]
    /\ outputFormat = [r \in Reqs |-> IF r = 1 THEN "mp3" ELSE ""]
    /\ \E data \in Payloads \ {<<>>} :
         inputData = [r \in Reqs |-> IF r = 1 THEN data ELSE <<>>]
    /\ ioMode = [r \in Reqs |-> IF r = 1 THEN "Pipe" ELSE "none"]
    /\ cmdArgs = [r \in Reqs |-> IF r = 1 THEN AudioArgs("mp3") ELSE <<>>]
    /\ spawns = [r \in Reqs |-> IF r = 1 THEN 1 ELSE 0]
    /\ inputPath = [r \in Reqs |-> NoPath]
    /\ outputPath = [r \in Reqs |-> NoPath]
    /\ fs = [p \in Paths |-> Absent]
    /\ exitStatus = [r \in Reqs |-> IF r = 1 THEN "zero" ELSE "none"]
    /\ \E out \in Outputs \ {<<>>} :
         outBuffer = [r \in Reqs |-> IF r = 1 THEN out ELSE <<>>]
    /\ \E text \in ParseTexts :
         errBuffer = [r \in Reqs |-> IF r = 1 THEN text ELSE <<>>]
    /\ result = [r \in Reqs |-> NoResult]
    /\ response = [r \in Reqs |-> NoResponse]
    /\ reply = [r \in Reqs |-> NoReply]
    /\ pool = {}
    /\ made = 2
    /\ held = [r \in Reqs |->
                 IF r = 1 THEN [out |-> 1, err |-> 2] ELSE NoBufs]
    /\ pipes = [r \in Reqs |-> NoPipes]
    /\ request = [r \in Reqs |-> NoRequest]

NextParse == ConvertAudioReturns(1)

SpecParse == InitParse /\ [][NextParse]_vars

(***************************************************************************)
(* The gif conversion of src/main.go, the build in which only a gif above  *)
(* 10MB goes through temp files and every other gif through the pipes with *)
(* pooled buffers.  Two gif requests whose payloads have been acquired are *)
(* converted side by side.  SizeLimit stands for the 10*1024*1024 bytes of *)
(* the source, scaled to the payloads of the model.                        *)
(***************************************************************************)
SizeLimit == 1
MainPayloads == SeqsUpTo(Bytes, SizeLimit + 1)
MainReqs == {1, 2}
MainTexts == {<<>>, <<OtherText>>}

GifPipeArgs ==
    <<"-i", "pipe:0", "-movflags", "faststart", "-pix_fmt", "yuv420p",
      "-vf", "scale=trunc(iw/2)*2:trunc(ih/2)*2", "-f", "mp4",
      "-c:v", "libx264", "-preset", "fast", "-crf", "23", "-y", "pipe:1">>

GifFileArgs ==
    <<"-i", "<in>", "-movflags", "faststart", "-pix_fmt", "yuv420p",
      "-vf", "scale=trunc(iw/2)*2:trunc(ih/2)*2", "-f", "mp4",
      "-c:v", "libx264", "-preset", "fast", "-crf", "23", "-y", "<out>">>

\* convertGifToMp4 of main.go once cmd.Run has returned.
GifPipeResult(ok, out, text) ==
    IF ~ok THEN Err("error during conversion", text)
    ELSE IF Len(out) = 0
    THEN Err("la conversion produjo un archivo de salida vacio", <<>>)
    ELSE Ok(out, NoDuration)

\* convertGifToMp4UsingTempFiles of main.go once cmd.Run has returned: it
\* reads the output artifact without a stat.
GifFilesResult(ok, file, readOk, text) ==
    IF ~ok THEN Err("error en conversion con archivos temporales", text)
    ELSE IF ~file.exists \/ ~readOk
    THEN Err("error al leer archivo de salida", <<>>)
    ELSE IF Len(file.data) = 0
    THEN Err("la conversion produjo un archivo de salida vacio", <<>>)
    ELSE Ok(file.data, NoDuration)

\* convertGifToMp4 of main.go up to cmd.Run, or up to its call of
\* convertGifToMp4UsingTempFiles.
ConvertGifToMp4(r) ==
    /\ pc[r] = "convert"
    /\ endpoint[r] = "gif"
    /\ IF Len(inputData[r]) = 0
       THEN /\ Return(r, Err("datos de entrada vacios", <<>>), fs)
            /\ UNCHANGED <<ioMode, cmdArgs, spawns, outBuffer, errBuffer,
                           pool, made, held>>
       ELSE IF Len(inputData[r]) > SizeLimit
       THEN /\ ioMode' = [ioMode EXCEPT ![r] = "TempFile"]
            /\ pc' = [pc EXCEPT ![r] = "createIn"]
            /\ UNCHANGED <<cmdArgs, spawns, outBuffer, errBuffer, pool,
                           made, held, fs, result, response>>
       ELSE /\ cmdArgs' = [cmdArgs EXCEPT ![r] = GifPipeArgs]
            /\ ioMode' = [ioMode EXCEPT ![r] = "Pipe"]
            /\ TakeBuffers(r)
            /\ spawns' = [spawns EXCEPT ![r] = @ + 1]
            /\ pc' = [pc EXCEPT ![r] = "running"]
            /\ UNCHANGED <<fs, result, response>>
    /\ UNCHANGED <<apiKey, endpoint, outputFormat, inputData, inputPath,
                   outputPath, exitStatus, reply>>
    /\ UNCHANGED pipes
    /\ UNCHANGED request

\* convertGifToMp4UsingTempFiles of main.go, after both artifacts exist:
\* the command is built and cmd.Run starts the process.
RunGif(r) ==
    /\ pc[r] = "statIn"
    /\ cmdArgs' = [cmdArgs EXCEPT ![r] = GifFileArgs]
    /\ errBuffer' = [errBuffer EXCEPT ![r] = <<>>]
    /\ spawns' = [spawns EXCEPT ![r] = @ + 1]
    /\ pc' = [pc EXCEPT ![r] = "running"]
    /\ UNCHANGED <<apiKey, endpoint, outputFormat, inputData, ioMode,
                   inputPath, outputPath, fs, exitStatus, outBuffer, result,
                   response, reply, pool, made, held>>
    /\ UNCHANGED pipes
    /\ UNCHANGED request

\* convertGifToMp4 of main.go from the return of cmd.Run to its own return;
\* the deferred Put calls hand the buffers back.
GifPipeReturns(r) ==
    /\ pc[r] = "exited"
    /\ ioMode[r] = "Pipe"
    /\ Return(r, GifPipeResult(exitStatus[r] = "zero", outBuffer[r],
                               errBuffer[r]),
              fs)
    /\ pool' = Put(Put(pool, held[r].err), held[r].out)
    /\ held' = [held EXCEPT ![r] = NoBufs]
    /\ UNCHANGED <<apiKey, endpoint, outputFormat, inputData, ioMode, cmdArgs,
                   spawns, inputPath, outputPath, exitStatus, outBuffer,
                   errBuffer, reply, made>>
    /\ UNCHANGED pipes
    /\ UNCHANGED request

\* convertGifToMp4UsingTempFiles of main.go from the return of cmd.Run to
\* its own return: os.ReadFile, then the deferred removals.
GifFilesReturn(r) ==
    /\ pc[r] = "exited"
    /\ ioMode[r] = "TempFile"
    /\ \E readOk \in BOOLEAN :
         Return(r, GifFilesResult(exitStatus[r] = "zero", fs[outputPath[r]],
                                  readOk, errBuffer[r]),
                Cleanup(fs, inputPath[r], outputPath[r]))
    /\ UNCHANGED <<apiKey, endpoint, outputFormat, inputData, ioMode, cmdArgs,
                   spawns, inputPath, outputPath, exitStatus, outBuffer,
                   errBuffer, reply, pool, made, held>>
    /\ UNCHANGED pipes
    /\ UNCHANGED request

\* Both gif requests have passed validateAPIKey and input acquisition; the
\* pool is empty or holds the two buffers of an earlier conversion.
InitMain ==
    /\ apiKey = "secret"
    /\ pc = [r \in Reqs |-> IF r \in MainReqs THEN "convert" ELSE "idle"]
    /\ endpoint = [r \in Reqs |-> IF r \in MainReqs THEN "gif" ELSE "audio"]
    /\ outputFormat = [r \in Reqs |-> IF r \in MainReqs THEN "mp4" ELSE ""]
    /\ inputData \in [Reqs -> MainPayloads]
    /\ \A r \in Reqs \ MainReqs : inputData[r] = <<>>
    /\ ioMode = [r \in Reqs |-> "none"]
    /\ cmdArgs = [r \in Reqs |-> <<>>]
    /\ spawns = [r \in Reqs |-> 0]
    /\ inputPath = [r \in Reqs |-> NoPath]
    /\ outputPath = [r \in Reqs |-> NoPath]
    /\ fs = [p \in Paths |-> Absent]
    /\ exitStatus = [r \in Reqs |-> "none"]
    /\ outBuffer = [r \in Reqs |-> <<>>]
    /\ errBuffer = [r \in Reqs |-> <<>>]
    /\ result = [r \in Reqs |-> NoResult]
    /\ response = [r \in Reqs |-> NoResponse]
    /\ reply = [r \in Reqs |-> NoReply]
    /\ made \in {0, 2}
    /\ pool = 1 .. made
    /\ held = [r \in Reqs |-> NoBufs]
    /\ pipes = [r \in Reqs |-> NoPipes]
    /\ request = [r \in Reqs |-> NoRequest]

NextMain ==
    \E r \in MainReqs :
        \/ ConvertGifToMp4(r)
        \/ CreateInput(r)
        \/ WriteInput(r)
        \/ CreateOutput(r)
        \/ RunGif(r)
        \/ ProcessExits(r) /\ errBuffer'[r] \in MainTexts
        \/ GifPipeReturns(r)
        \/ GifFilesReturn(r)

SpecMain == InitMain /\ [][NextMain]_vars

(***************************************************************************)
(* cmd.Run of a Pipe-mode conversion followed through its pipes.  One      *)
(* audio conversion has started its process; from there the steps are the  *)
(* system calls of the process and the copies of the three goroutines      *)
(* cmd.Run started: one copies the payload into the process's stdin and    *)
(* closes it, one copies the process's stdout into outBuffer, one its      *)
(* stderr into errBuffer.  A write to a full pipe and a read from an empty *)
(* open pipe block: the step is not enabled.  cmd.Run returns when the     *)
(* process has exited and the three copies have finished.  The process is  *)
(* any program that makes finitely many calls: it reads until it wants no  *)
(* more or sees the end of its input, writes up to PipeCap + 1 bytes of    *)
(* output and as many diagnostic tokens, in any order, and exits.          *)
(***************************************************************************)
PipeReqs == {1}
PipePayloads == SeqsUpTo(Bytes, PipeCap + 1) \ {<<>>}
\* The byte the process writes to stdout (what it writes plays no part in
\* the pipes' flow).
OutByte == 1

\* The calls a process in state p may make next.
NextWants(p) ==
    {"exit"}
        \cup (IF p.eof THEN {} ELSE {"read"})
        \cup (IF p.wrote < PipeCap + 1 THEN {"out"} ELSE {})
        \cup (IF p.wroteErr < PipeCap + 1 THEN {"err"} ELSE {})

\* The process has made its call and goes on to the next, its pipes and
\* counts now being q.
ProcessGoesOn(r, q) ==
    /\ \E w \in NextWants(q) :
         pipes' = [pipes EXCEPT ![r] = [q EXCEPT !.want = w]]
    /\ UNCHANGED <<apiKey, pc, endpoint, outputFormat, inputData, ioMode,
                   cmdArgs, spawns, inputPath, outputPath, fs, exitStatus,
                   outBuffer, errBuffer, result, response, reply, pool, made,
                   held>>
    /\ UNCHANGED request

\* read(0): a byte of the pipe, or the end of input once the pipe is empty
\* and closed.
ProcessReads(r) ==
    /\ pc[r] = "running" /\ pipes[r].want = "read"
    /\ LET p == pipes[r] IN
       IF p.stdin # <<>>
       THEN ProcessGoesOn(r, [p EXCEPT !.stdin = Tail(@)])
       ELSE /\ p.wdone
            /\ ProcessGoesOn(r, [p EXCEPT !.eof = TRUE])

\* write(1): one byte into the stdout pipe, when it has room.
ProcessWritesOut(r) ==
    /\ pc[r] = "running" /\ pipes[r].want = "out"
    /\ Len(pipes[r].stdout) < PipeCap
    /\ ProcessGoesOn(r, [pipes[r] EXCEPT !.stdout = Append(@, OutByte),
                                         !.wrote = @ + 1])

\* write(2): one token into the stderr pipe, when it has room.
ProcessWritesErr(r) ==
    /\ pc[r] = "running" /\ pipes[r].want = "err"
    /\ Len(pipes[r].stderr) < PipeCap
    /\ ProcessGoesOn(r, [pipes[r] EXCEPT !.stderr = Append(@, OtherText),
                                         !.wroteErr = @ + 1])

\* exit: the process's ends of the three pipes are closed.
ProcessQuits(r) ==
    /\ pc[r] = "running" /\ pipes[r].want = "exit"
    /\ \E status \in {"zero", "nonzero"} :
         exitStatus' = [exitStatus EXCEPT ![r] = status]
    /\ pipes' = [pipes EXCEPT ![r].want = "exited"]
    /\ UNCHANGED <<apiKey, pc, endpoint, outputFormat, inputData, ioMode,
                   cmdArgs, spawns, inputPath, outputPath, fs, outBuffer,
                   errBuffer, result, response, reply, pool, made, held>>
    /\ UNCHANGED request

\* The goroutine copying cmd.Stdin: the next payload byte into the pipe
\* when it has room, the close after the last byte; a write after the
\* process has exited fails and ends the copy.
CopyStdin(r) ==
    /\ pc[r] = "running" /\ pipes[r].want # "none"
    /\ ~pipes[r].wdone
    /\ LET p == pipes[r] IN
       IF p.sent = Len(inputData[r]) \/ exitStatus[r] # "none"
       THEN pipes' = [pipes EXCEPT ![r].wdone = TRUE]
       ELSE /\ Len(p.stdin) < PipeCap
            /\ pipes' = [pipes EXCEPT
                           ![r].stdin = Append(@, inputData[r][p.sent + 1]),
                           ![r].sent = @ + 1]
    /\ UNCHANGED <<apiKey, pc, endpoint, outputFormat, inputData, ioMode,
                   cmdArgs, spawns, inputPath, outputPath, fs, exitStatus,
                   outBuffer, errBuffer, result, response, reply, pool, made,
                   held>>
    /\ UNCHANGED request

\* Mutant of CopyStdout: stdout is drained only once the whole payload has
\* been written to the process.
CopyStdoutAfterStdin(r) ==
    /\ pc[r] = "running" /\ pipes[r].want # "none"
    /\ pipes[r].wdone
    /\ ~pipes[r].odone
    /\ LET p == pipes[r] IN
       IF p.stdout # <<>>
       THEN /\ outBuffer' = [outBuffer EXCEPT ![r] = Append(@, Head(p.stdout))]
            /\ pipes' = [pipes EXCEPT ![r].stdout = Tail(@)]
       ELSE /\ exitStatus[r] # "none"
            /\ pipes' = [pipes EXCEPT ![r].odone = TRUE]
            /\ UNCHANGED outBuffer
    /\ UNCHANGED <<apiKey, pc, endpoint, outputFormat, inputData, ioMode,
                   cmdArgs, spawns, inputPath, outputPath, fs, exitStatus,
                   errBuffer, result, response, reply, pool, made, held>>
    /\ UNCHANGED request

\* The goroutine copying the stdout pipe into outBuffer: a byte of the
\* pipe, or the end of the stream once the pipe is empty and the process
\* has exited.
CopyStdout(r) ==
    /\ pc[r] = "running" /\ pipes[r].want # "none"
    /\ ~pipes[r].odone
    /\ LET p == pipes[r] IN
       IF p.stdout # <<>>
       THEN /\ outBuffer' = [outBuffer EXCEPT ![r] = Append(@, Head(p.stdout))]
            /\ pipes' = [pipes EXCEPT ![r].stdout = Tail(@)]
       ELSE /\ exitStatus[r] # "none"
            /\ pipes' = [pipes EXCEPT ![r].odone = TRUE]
            /\ UNCHANGED outBuffer
    /\ UNCHANGED <<apiKey, pc, endpoint, outputFormat, inputData, ioMode,
                   cmdArgs, spawns, inputPath, outputPath, fs, exitStatus,
                   errBuffer, result, response, reply, pool, made, held>>
    /\ UNCHANGED request

\* The goroutine copying the stderr pipe into errBuffer.
CopyStderr(r) ==
    /\ pc[r] = "running" /\ pipes[r].want # "none"
    /\ ~pipes[r].edone
    /\ LET p == pipes[r] IN
       IF p.stderr # <<>>
       THEN /\ errBuffer' = [errBuffer EXCEPT ![r] = Append(@, Head(p.stderr))]
            /\ pipes' = [pipes EXCEPT ![r].stderr = Tail(@)]
       ELSE /\ exitStatus[r] # "none"
            /\ pipes' = [pipes EXCEPT ![r].edone = TRUE]
            /\ UNCHANGED errBuffer
    /\ UNCHANGED <<apiKey, pc, endpoint, outputFormat, inputData, ioMode,
                   cmdArgs, spawns, inputPath, outputPath, fs, exitStatus,
                   outBuffer, result, response, reply, pool, made, held>>
    /\ UNCHANGED request

\* cmd.Run returns: the process has exited and the three copies are done.
RunReturns(r) ==
    /\ pc[r] = "running" /\ pipes[r].want = "exited"
    /\ pipes[r].wdone /\ pipes[r].odone /\ pipes[r].edone
    /\ pc' = [pc EXCEPT ![r] = "exited"]
    /\ UNCHANGED <<apiKey, endpoint, outputFormat, inputData, ioMode, cmdArgs,
                   spawns, inputPath, outputPath, fs, exitStatus, outBuffer,
                   errBuffer, result, response, reply, pool, made, held,
                   pipes>>
    /\ UNCHANGED request

\* One step inside cmd.Run of request r.
PipeStep(r) ==
    \/ ProcessReads(r)
    \/ ProcessWritesOut(r)
    \/ ProcessWritesErr(r)
    \/ ProcessQuits(r)
    \/ CopyStdin(r)
    \/ CopyStdout(r)
    \/ CopyStderr(r)
    \/ RunReturns(r)

\* An audio conversion that has taken its buffers and started its process,
\* which is about to make its first call.
InitPipe ==
    /\ apiKey = "secret"
    /\ pc = [r \in Reqs |-> IF r \in PipeReqs THEN "running" ELSE "idle"]
    /\ endpoint = [r \in Reqs |-> "audio"]
    /\ outputFormat = [r \in Reqs |-> IF r \in PipeReqs THEN "mp3" ELSE ""]
    /\ inputData \in [Reqs -> PipePayloads \cup {<<>>}]
    /\ \A r \in Reqs : inputData[r] = <<>> <=> r \notin PipeReqs
    /\ ioMode = [r \in Reqs |-> IF r \in PipeReqs THEN "Pipe" ELSE "none"]
    /\ cmdArgs =
         [r \in Reqs |-> IF r \in PipeReqs THEN AudioArgs("mp3") ELSE <<>>]
    /\ spawns = [r \in Reqs |-> IF r \in PipeReqs THEN 1 ELSE 0]
    /\ inputPath = [r \in Reqs |-> NoPath]
    /\ outputPath = [r \in Reqs |-> NoPath]
    /\ fs = [p \in Paths |-> Absent]
    /\ exitStatus = [r \in Reqs |-> "none"]
    /\ outBuffer = [r \in Reqs |-> <<>>]
    /\ errBuffer = [r \in Reqs |-> <<>>]
    /\ result = [r \in Reqs |-> NoResult]
    /\ response = [r \in Reqs |-> NoResponse]
    /\ reply = [r \in Reqs |-> NoReply]
    /\ pool = {}
    /\ made = 2
    /\ held = [r \in Reqs |->
                 IF r \in PipeReqs THEN [out |-> 1, err |-> 2] ELSE NoBufs]
    /\ \E w \in NextWants(NoPipes) :
         pipes = [r \in Reqs |->
                    IF r \in PipeReqs THEN [NoPipes EXCEPT !.want = w]
                    ELSE NoPipes]
    /\ request = [r \in Reqs |-> NoRequest]

NextPipe == \E r \in PipeReqs : PipeStep(r) \/ ConvertAudioReturns(r)

\* The goroutines are scheduled and the process, a terminating program,
\* makes its next call whenever that call can go through.
SpecPipe == InitPipe /\ [][NextPipe]_vars /\ WF_vars(NextPipe)

(***************************************************************************)
(* Input acquisition of the audio handler on its own: validateAPIKey, then *)
(* getInputData over the file, base64 and url fields of the request, for   *)
(* every request a client may send; a url goes on to the remote fetch and  *)
(* a payload to the start of convertAudio.                                 *)
(***************************************************************************)
InputReqs == {1}

\* What getInputData comes to before any fetch: bytes, an error, or the
\* call of fetchAudioFromURL.
Got(data) == [kind |-> "data", data |-> data]
Failed == [kind |-> "error", data |-> <<>>]
Fetch == [kind |-> "fetch", data |-> <<>>]

\* io.ReadAll of the uploaded file.
ReadAll(file) == IF file.kind = "file" THEN Got(file.data) ELSE Failed

\* base64.StdEncoding.DecodeString.
DecodeString(field) ==
    IF field.kind = "encoded" THEN Got(field.data) ELSE Failed

\* Mutant of GetInputData: a base64 field that does not decode is passed
\* over and the url is tried.
GetInputDataFallsThrough(req) ==
    IF req.file.kind # "none" THEN ReadAll(req.file)
    ELSE IF req.base64.kind = "encoded" THEN DecodeString(req.base64)
    ELSE IF req.url # "" THEN Fetch
    ELSE Failed

\* getInputData.
GetInputData(req) ==
    IF req.file.kind # "none" THEN ReadAll(req.file)
    ELSE IF req.base64 # NoField THEN DecodeString(req.base64)
    ELSE IF req.url # "" THEN Fetch
    ELSE Failed

\* processAudio from its entry to the return of getInputData, or to the
\* GET getInputData sends.
ProcessAudio(r) ==
    /\ pc[r] = "idle"
    /\ \E req \in Requests :
         /\ request' = [request EXCEPT ![r] = req]
         /\ IF ValidateAPIKey(apiKey, req.apikey) # 0
            THEN /\ response' =
                      [response EXCEPT
                         ![r] = Handler(ValidateAPIKey(apiKey, req.apikey))]
                 /\ pc' = [pc EXCEPT ![r] = "done"]
                 /\ UNCHANGED inputData
            ELSE LET got == GetInputData(req) IN
                 /\ pc' = [pc EXCEPT
                             ![r] = CASE got.kind = "error" -> "done"
                                      [] got.kind = "data" -> "convert"
                                      [] OTHER -> "fetching"]
                 /\ response' =
                      [response EXCEPT
                         ![r] = IF got.kind = "error" THEN Handler(400)
                                ELSE @]
                 /\ inputData' = [inputData EXCEPT ![r] = got.data]
    /\ endpoint' = [endpoint EXCEPT ![r] = "audio"]
    /\ outputFormat' = [outputFormat EXCEPT ![r] = "ogg"]
    /\ UNCHANGED <<apiKey, ioMode, cmdArgs, spawns, inputPath, outputPath, fs,
                   exitStatus, outBuffer, errBuffer, result, reply, pool,
                   made, held, pipes>>

NextInput ==
    \E r \in InputReqs :
        \/ ProcessAudio(r)
        \/ RemoteReplies(r)
        \/ FetchReturns(r)
        \/ ConvertAudio(r)
        \/ Release(r)

SpecInput == Init /\ [][NextInput]_vars

(***************************************************************************)
(* Vocabulary of the properties.                                           *)
(***************************************************************************)
\* The convert* call of request r has returned (or panicked).
Returned(r) == pc[r] = "done" /\ result[r].kind # "none"

\* Request r has entered a convert* function.
Converting(r) ==
    \/ pc[r] \notin {"idle", "fetching", "fetched", "convert", "done"}
    \/ Returned(r)

\* The muxer an argument list names after "-f" ("" when it names none).
MuxerOf(args) ==
    LET at == {i \in 1 .. Len(args) - 1 : args[i] = "-f"} IN
    IF at = {} THEN "" ELSE args[(CHOOSE i \in at : TRUE) + 1]

\* The output container of a conversion: the muxer its arguments name, and
\* for video-to-mp4, which names none, the .mp4 of its output path.
ContainerOf(ep, tag) ==
    LET m == MuxerOf(IF ep = "audio" THEN AudioArgs(tag)
                     ELSE TempFileArgs(ep)) IN
    IF m = "" THEN "mp4" ELSE m

\* The containers that need seekable output: ffmpeg's mp4 and ipod (m4a)
\* muxers both write the MP4 family.
Mp4Family == {"mp4", "ipod"}

\* The diagnostic text's markers: positions of "time=", and those followed
\* at once by a timestamp.
MarkersOf(text) == {i \in 1 .. Len(text) : text[i] = Marker}
WellFormedAt(text, i) == i < Len(text) /\ text[i + 1] \in Stamps
LastMarker(text) ==
    CHOOSE i \in MarkersOf(text) : \A j \in MarkersOf(text) : j <= i

\* hours*3600 + minutes*60 + floor(seconds) of a timestamp hh:mm:ss.cc.
WholeSeconds(t) == t[1] * 3600 + t[2] * 60 + t[3]

(***************************************************************************)
(* C1.  Once a TempFile-mode conversion has returned, on whatever path     *)
(* (creation, write or stat failure, non-zero exit, read failure, empty    *)
(* output, success, panic), neither the input artifact nor the output      *)
(* artifact it created exists.                                             *)
(***************************************************************************)
C1_ArtifactsRemoved ==
    \A r \in Reqs :
        (Returned(r) /\ ioMode[r] = "TempFile") =>
            /\ inputPath[r] # NoPath => ~fs[inputPath[r]].exists
            /\ outputPath[r] # NoPath => ~fs[outputPath[r]].exists

\* A TempFile-mode conversion that created both artifacts and succeeded.
C1_Witness ==
    \E r \in Reqs :
        /\ Returned(r) /\ ioMode[r] = "TempFile"
        /\ inputPath[r] # NoPath /\ outputPath[r] # NoPath
        /\ result[r].kind = "ok"

(***************************************************************************)
(* C2.  In every conversion entry point an empty payload is rejected with  *)
(* an error before any temp artifact is created and before any process is  *)
(* spawned.                                                                *)
(***************************************************************************)
C2_EmptyRejected ==
    \A r \in Reqs :
        (Converting(r) /\ Len(inputData[r]) = 0) =>
            /\ spawns[r] = 0
            /\ inputPath[r] = NoPath
            /\ Returned(r) => result[r].kind = "error"

(***************************************************************************)
(* C3.  The mode a conversion runs in is TempFile exactly when its output  *)
(* container is of the MP4 family; every other output runs in Pipe mode.   *)
(***************************************************************************)
C3_TempFileIffSeek ==
    \A r \in Reqs :
        ioMode[r] # "none" =>
            (ioMode[r] = "TempFile"
                <=> ContainerOf(endpoint[r], outputFormat[r]) \in Mp4Family)

(***************************************************************************)
(* C4.  No conversion whose output container is of the MP4 family streams  *)
(* its output through a pipe: it is not in Pipe mode and its argument list *)
(* does not end in pipe:1.                                                 *)
(***************************************************************************)
C4_NoMp4ThroughPipe ==
    \A r \in Reqs :
        (spawns[r] > 0
            /\ ContainerOf(endpoint[r], outputFormat[r]) \in Mp4Family) =>
            /\ ioMode[r] # "Pipe"
            /\ cmdArgs[r][Len(cmdArgs[r])] # "pipe:1"

(***************************************************************************)
(* C5.  A conversion that reports success returns non-empty output bytes:  *)
(* a process that exits 0 without output yields an error, in Pipe mode as  *)
(* in TempFile mode.                                                       *)
(***************************************************************************)
C5_SuccessNonEmpty ==
    \A r \in Reqs :
        /\ result[r].kind = "ok" => Len(result[r].data) > 0
        /\ (Returned(r) /\ response[r].code = 200) =>
               Len(result[r].data) > 0

(***************************************************************************)
(* C6.  When the process exits non-zero, the conversion returns an error,  *)
(* no output bytes, and the error carries the whole captured stderr text   *)
(* unchanged.                                                              *)
(***************************************************************************)
C6_NonZeroExitCarriesDiagnostics ==
    \A r \in Reqs :
        (Returned(r) /\ exitStatus[r] = "nonzero") =>
            /\ result[r].kind = "error"
            /\ result[r].data = <<>>
            /\ result[r].details = errBuffer[r]

\* A non-zero exit with some stderr text, returned as an error.
C6_Witness ==
    \E r \in Reqs :
        /\ Returned(r) /\ exitStatus[r] = "nonzero"
        /\ Len(errBuffer[r]) > 0
        /\ result[r].kind = "error"

(***************************************************************************)
(* C7.  The process is spawned at most once per request, exactly once when *)
(* acquisition succeeded and the payload was accepted, and a failed        *)
(* invocation (non-zero exit, empty output, duration-parse failure) is     *)
(* reported to the caller as a failure, not retried.                       *)
(***************************************************************************)
\* The invocation of request r failed: the process exited non-zero, or
\* produced no output, or the duration could not be parsed.
FailedInvocation(r) ==
    /\ spawns[r] > 0
    /\ \/ exitStatus[r] = "nonzero"
       \/ /\ exitStatus[r] = "zero"
          /\ IF ioMode[r] = "Pipe" THEN Len(outBuffer[r]) = 0
             ELSE result[r].kind = "error"
       \/ /\ exitStatus[r] = "zero" /\ ioMode[r] = "Pipe"
          /\ result[r].kind \in {"error", "panic"}

C7_SpawnedOnceFailureReported ==
    \A r \in Reqs :
        /\ spawns[r] <= 1
        /\ (Returned(r) /\ result[r].msg # "datos de entrada vacios") =>
               spawns[r] = 1
        /\ (Returned(r) /\ FailedInvocation(r)) =>
               /\ result[r].kind # "ok"
               /\ response[r].code # 200

(***************************************************************************)
(* C8.  When the process exited 0 and the stderr text holds at least one   *)
(* well-formed time=hh:mm:ss.cc marker, exactly one included, the          *)
(* conversion returns a duration of hours*3600 + minutes*60 +              *)
(* floor(seconds) of one of its markers; the single marker                 *)
(* time=01:02:03.50 gives 3723.                                            *)
(***************************************************************************)
C8_DurationFromMarker ==
    \A r \in Reqs :
        (Returned(r) /\ endpoint[r] = "audio" /\ exitStatus[r] = "zero") =>
            LET text == errBuffer[r]
                good == {i \in MarkersOf(text) : WellFormedAt(text, i)} IN
            /\ (MarkersOf(text) # {} /\ good = MarkersOf(text)) =>
                   /\ result[r].kind = "ok"
                   /\ \E i \in good :
                        result[r].duration = WholeSeconds(text[i + 1])
            /\ text = <<Marker, <<1, 2, 3, 50>>>> =>
                   result[r].kind = "ok" /\ result[r].duration = 3723

(***************************************************************************)
(* C9.  A duration returned by the audio conversion is that of the last    *)
(* time= marker of the stderr text, however many markers the text holds.   *)
(***************************************************************************)
C9_DurationFromLastMarker ==
    \A r \in Reqs :
        (Returned(r) /\ endpoint[r] = "audio" /\ result[r].kind = "ok") =>
            LET text == errBuffer[r] IN
            /\ MarkersOf(text) # {}
            /\ WellFormedAt(text, LastMarker(text)) =>
                   result[r].duration
                       = WholeSeconds(text[LastMarker(text) + 1])

(***************************************************************************)
(* C10.  When the process exited 0 and the stderr text holds no time=      *)
(* token, or no time= token followed by a timestamp, the conversion ends   *)
(* in a returned error: it neither panics nor succeeds with a duration.    *)
(***************************************************************************)
C10_NoMarkerIsAnError ==
    \A r \in Reqs :
        (Returned(r) /\ endpoint[r] = "audio" /\ exitStatus[r] = "zero") =>
            LET text == errBuffer[r] IN
            (\A i \in MarkersOf(text) : ~WellFormedAt(text, i)) =>
                result[r].kind = "error"

(***************************************************************************)
(* C11.  A duration-extraction failure does not abort the audio            *)
(* conversion: when the process exited 0 and produced output bytes but no  *)
(* time= marker of the stderr text is followed by a timestamp, the         *)
(* conversion still returns the output bytes and the handler answers 200.  *)
(***************************************************************************)
\* The duration marker of a text is absent or malformed.
NoUsableMarker(text) == \A i \in MarkersOf(text) : ~WellFormedAt(text, i)

C11_DurationFailureKeepsOutput ==
    \A r \in Reqs :
        (Returned(r) /\ endpoint[r] = "audio" /\ exitStatus[r] = "zero"
           /\ Len(outBuffer[r]) > 0 /\ NoUsableMarker(errBuffer[r])) =>
            /\ result[r].kind = "ok"
            /\ result[r].data = outBuffer[r]
            /\ response[r].code = 200

(***************************************************************************)
(* C12.  An audio conversion never fails at dispatch.  For every output    *)
(* tag other than mp3, wav, aac, amr, m4a (the empty string and misspelt   *)
(* names included) the argument list is exactly the default compact        *)
(* profile (libopus, 16k, mono, 16000 Hz, ogg on pipe:1); for each of the  *)
(* five recognized tags it is that tag's own fixed template.               *)
(***************************************************************************)
RecognizedTags == {"mp3", "wav", "aac", "amr", "m4a"}

\* The value an argument list gives after a flag ("" when it has none).
OptionOf(args, flag) ==
    LET at == {i \in 1 .. Len(args) - 1 : args[i] = flag} IN
    IF at = {} THEN "" ELSE args[(CHOOSE i \in at : TRUE) + 1]

\* What the profile of a tag must say: codec, bitrate, channels, sample
\* rate, container ("" where the profile leaves ffmpeg's default).
ProfileOf(tag) ==
    CASE tag = "mp3" -> <<"", "", "", "", "mp3">>
      [] tag = "wav" -> <<"", "", "", "", "wav">>
      [] tag = "aac" -> <<"aac", "128k", "", "", "adts">>
      [] tag = "amr" -> <<"libopencore_amrnb", "12.2k", "", "", "amr">>
      [] tag = "m4a" -> <<"aac", "128k", "", "", "ipod">>
      [] OTHER -> <<"libopus", "16k", "1", "16000", "ogg">>

DefaultCompactProfile ==
    <<"-i", "pipe:0", "-c:a", "libopus", "-b:a", "16k", "-vbr", "on",
      "-compression_level", "10", "-ac", "1", "-ar", "16000", "-f", "ogg",
      "pipe:1">>

C12_UnknownTagsGetDefaultProfile ==
    \A r \in Reqs :
        (Converting(r) /\ endpoint[r] = "audio") =>
            LET args == cmdArgs[r] IN
            /\ spawns[r] = 1
            /\ args[1] = "-i" /\ args[2] = "pipe:0"
            /\ args[Len(args)] = "pipe:1"
            /\ <<OptionOf(args, "-c:a"), OptionOf(args, "-b:a"),
                 OptionOf(args, "-ac"), OptionOf(args, "-ar"),
                 OptionOf(args, "-f")>> = ProfileOf(outputFormat[r])
            /\ outputFormat[r] \notin RecognizedTags =>
                   args = DefaultCompactProfile

\* A misspelt tag and the empty tag have each been converted.
C12_Witness ==
    \E r \in Reqs :
        /\ Returned(r) /\ endpoint[r] = "audio"
        /\ outputFormat[r] \in {"", "mp33"}
        /\ result[r].kind = "ok"

(***************************************************************************)
(* C13.  The format tag of a successful audio answer is the resolved       *)
(* output format: the declared tag when it is a recognized one, and the    *)
(* default profile's ogg when it is not, never the caller's unrecognized   *)
(* string.                                                                 *)
(***************************************************************************)
ResolvedFormat(tag) == IF tag \in RecognizedTags THEN tag ELSE "ogg"

C13_FormatIsResolved ==
    \A r \in Reqs :
        (endpoint[r] = "audio" /\ response[r].code = 200) =>
            AudioBody(r).format = ResolvedFormat(outputFormat[r])

(***************************************************************************)
(* C14.  With a process that copies its input stream to its output stream, *)
(* exits 0 and writes nothing else, every Pipe-mode conversion of a        *)
(* non-empty payload returns success with output bytes equal to the input  *)
(* bytes.                                                                  *)
(***************************************************************************)
\* The process of request r behaved as an echo.
Echoed(r) ==
    /\ exitStatus[r] = "zero"
    /\ outBuffer[r] = inputData[r]
    /\ errBuffer[r] = <<>>

C14_EchoRoundTrips ==
    \A r \in Reqs :
        (Returned(r) /\ ioMode[r] = "Pipe" /\ Len(inputData[r]) > 0
           /\ Echoed(r)) =>
            /\ result[r].kind = "ok"
            /\ result[r].data = inputData[r]

(***************************************************************************)
(* C15.  When the process of a TempFile-mode conversion exited 0 and left  *)
(* a non-empty byte sequence at its output path, the conversion returns    *)
(* exactly the bytes the output artifact held at process exit, and the     *)
(* artifact is gone once it has returned; the one other outcome is the     *)
(* error of a failed read of the artifact.                                 *)
(***************************************************************************)
C15_TempFileReturnsArtifact ==
    [][\A r \in Reqs :
          (/\ pc[r] = "exited" /\ pc'[r] = "done"
           /\ ioMode[r] = "TempFile" /\ exitStatus[r] = "zero"
           /\ fs[outputPath[r]].exists
           /\ Len(fs[outputPath[r]].data) > 0) =>
              \/ /\ result'[r].kind = "ok"
                 /\ result'[r].data = fs[outputPath[r]].data
                 /\ response'[r].code = 200
                 /\ ~fs'[outputPath[r]].exists
              \/ result'[r].msg = "error al leer archivo de salida"]_vars

\* A TempFile-mode conversion has returned the bytes its process wrote.
C15_Witness ==
    \E r \in Reqs :
        /\ Returned(r) /\ ioMode[r] = "TempFile"
        /\ exitStatus[r] = "zero"
        /\ result[r].kind = "ok" /\ Len(result[r].data) > 0
        /\ response[r].code = 200

(***************************************************************************)
(* C16.  The execution plan is a function of the declared input and output *)
(* tags only: two requests with the same tags get the same I/O mode and    *)
(* the same argument template (temp-file paths being placeholders),        *)
(* whatever their payloads and the order in which they are served.         *)
(***************************************************************************)
\* The conversion of request r has chosen its I/O mode.
Planned(r) == ioMode[r] # "none"

C16_PlanFromTagsOnly ==
    \A r1, r2 \in Reqs :
        (/\ Planned(r1) /\ Planned(r2)
         /\ endpoint[r1] = endpoint[r2]
         /\ outputFormat[r1] = outputFormat[r2]) =>
            /\ ioMode[r1] = ioMode[r2]
            /\ (cmdArgs[r1] # <<>> /\ cmdArgs[r2] # <<>>) =>
                   cmdArgs[r1] = cmdArgs[r2]

(***************************************************************************)
(* C17.  A Pipe-mode conversion holds two distinct pooled buffers, both    *)
(* empty when its process starts to write, and has handed both back once   *)
(* it has returned, whether with a value, with the error of a non-zero     *)
(* exit or of a duration-parse failure, or by a panic: every buffer the    *)
(* pool has made is parked or held by a conversion still under way.        *)
(***************************************************************************)
\* The buffers held by conversions.
HeldBufs ==
    ({held[r].out : r \in Reqs} \cup {held[r].err : r \in Reqs}) \ {NoBuf}

C17_BuffersResetAndReturned ==
    /\ \A r \in Reqs :
           (pc[r] = "running" /\ ioMode[r] = "Pipe") =>
               /\ held[r].out # NoBuf /\ held[r].err # NoBuf
               /\ held[r].out # held[r].err
               /\ outBuffer[r] = <<>> /\ errBuffer[r] = <<>>
    /\ \A r \in Reqs :
           pc[r] \notin {"running", "exited"} => held[r] = NoBufs
    /\ pool \cup HeldBufs = 1 .. made
    /\ pool \cap HeldBufs = {}

\* A Pipe-mode conversion has ended in a panic and its two buffers are
\* parked.
C17_Witness ==
    \E r \in Reqs :
        /\ Returned(r) /\ ioMode[r] = "Pipe"
        /\ result[r].kind = "panic"
        /\ made = 2 /\ pool = {1, 2}

(***************************************************************************)
(* C18.  On every endpoint a remote fetch answered with a status other     *)
(* than 200 fails input acquisition: the handler answers 400, the body of  *)
(* the answer does not become the payload, and the request goes no         *)
(* further, so no process is spawned for it.                               *)
(***************************************************************************)
C18_NonOkFetchFails ==
    [][\A r \in Reqs :
          (/\ pc[r] = "fetched" /\ pc'[r] # "fetched"
           /\ reply[r].kind = "answer" /\ reply[r].status # 200) =>
              /\ pc'[r] = "done"
              /\ response'[r].code = 400
              /\ inputData'[r] = inputData[r]
              /\ spawns'[r] = 0]_vars

(***************************************************************************)
(* C19.  On every endpoint an empty payload is answered in the class of    *)
(* the input-acquisition failures, with 400 and before any process is      *)
(* spawned, not with the 500 of a failed conversion.                       *)
(***************************************************************************)
C19_EmptyPayloadIsAcquisitionError ==
    \A r \in Reqs :
        (Returned(r) /\ Len(inputData[r]) = 0) =>
            /\ response[r].code = 400
            /\ spawns[r] = 0

(***************************************************************************)
(* C20.  A request waiting for its process leaves the wait only by the     *)
(* exit of that process (or by a panic raised in cmd.Run): nothing times   *)
(* out, so while the process has not exited the request has no response.   *)
(* A request so hung blocks no other request: whatever the other requests  *)
(* are doing, a new request can arrive and a handler that is not itself    *)
(* waiting for its process or for a remote server can take its next step,  *)
(* up to its response.                                                     *)
(***************************************************************************)
\* Where a handler is when its next step is its own.
HandlerPositions ==
    {"fetched", "convert", "createIn", "writeIn", "createOut", "statIn",
     "exited"}

\* Under the fair scheduling of the handlers, a request whose process has
\* exited is answered.
EveryExitIsAnswered ==
    \A q \in ConcReqs :
        (pc[q] = "exited") ~> (pc[q] = "done" /\ response[q].code # 0)

C20_HungRequestBlocksOnlyItself ==
    /\ [][\A r \in Reqs :
             (pc[r] = "running" /\ pc'[r] # "running") =>
                 \/ exitStatus'[r] # "none" /\ response'[r] = NoResponse
                 \/ result'[r].kind = "panic"]_vars
    /\ [](\A q \in ConcReqs :
             /\ pc[q] = "idle" => ENABLED Arrive(q)
             /\ pc[q] \in HandlerPositions => ENABLED HandlerStep(q))

\* One request still waits for its process, without a response, while a
\* request that arrived beside it has been answered 200.
C20_Witness ==
    \E r, q \in Reqs :
        /\ r # q
        /\ pc[r] = "running" /\ exitStatus[r] = "none"
        /\ response[r] = NoResponse
        /\ Returned(q) /\ spawns[q] = 1 /\ response[q].code = 200

(***************************************************************************)
(* C21.  Under any interleaving of concurrent Pipe-mode requests: no       *)
(* pooled buffer is held by two requests at once or is parked while held;  *)
(* a request's output and diagnostic buffers are two distinct buffers;     *)
(* the output buffer is empty when the request's own process starts to     *)
(* write, so what it holds at exit is what that process wrote, and a       *)
(* successful conversion returns exactly those bytes; and what a           *)
(* conversion has returned does not change afterwards, whatever the other  *)
(* requests do with the buffers it handed back.                            *)
(***************************************************************************)
\* The pooled buffers request r holds.
BufsOf(r) == {held[r].out, held[r].err} \ {NoBuf}

\* No buffer is shared: between two requests, between the two roles of one
\* request, or between a request and the pool.
BuffersExclusive ==
    /\ \A r, q \in Reqs : r # q => BufsOf(r) \cap BufsOf(q) = {}
    /\ \A r \in Reqs :
           held[r] # NoBufs =>
               /\ held[r].out # NoBuf /\ held[r].err # NoBuf
               /\ held[r].out # held[r].err
    /\ \A r \in Reqs : BufsOf(r) \cap pool = {}
    /\ \A r \in Reqs :
           (pc[r] = "running" /\ ioMode[r] = "Pipe") =>
               held[r] # NoBufs /\ outBuffer[r] = <<>>

C21_BuffersNeverShared ==
    /\ []BuffersExclusive
    /\ [][\A r \in Reqs :
             /\ (/\ pc[r] = "exited" /\ pc'[r] = "done"
                 /\ ioMode[r] = "Pipe" /\ result'[r].kind = "ok") =>
                    result'[r].data = outBuffer[r]
             /\ (Returned(r) /\ pc'[r] = "done") =>
                    /\ result'[r] = result[r]
                    /\ response'[r] = response[r]]_vars

\* A conversion has returned its bytes and handed its buffers back; the
\* other request has taken the same two buffers and its process has left
\* other contents in the output buffer.
C21_Witness ==
    \E r, q \in Reqs :
        /\ r # q
        /\ Returned(r) /\ ioMode[r] = "Pipe"
        /\ result[r].kind = "ok" /\ Len(result[r].data) > 0
        /\ made = 2
        /\ pc[q] = "exited" /\ ioMode[q] = "Pipe"
        /\ BufsOf(q) = {1, 2}
        /\ outBuffer[q] # result[r].data

(***************************************************************************)
(* C22.  In Pipe mode the payload is written to the process while its      *)
(* output and diagnostic streams are drained.  Inside cmd.Run some step is *)
(* always possible: a process that has filled the stdout or stderr pipe    *)
(* before reading its input is never stuck, nor is the writer of its       *)
(* input.  So every conversion whose process makes finitely many calls     *)
(* returns, and the buffers then hold all the process wrote.               *)
(***************************************************************************)
\* Request r is inside a cmd.Run followed through its pipes.
InRun(r) == pc[r] = "running" /\ pipes[r].want # "none"

C22_PipesNeverDeadlock ==
    /\ [](\A r \in PipeReqs :
             /\ InRun(r) => ENABLED PipeStep(r)
             /\ (pc[r] \in {"exited", "done"}) =>
                    /\ Len(outBuffer[r]) = pipes[r].wrote
                    /\ Len(errBuffer[r]) = pipes[r].wroteErr)
    /\ \A r \in PipeReqs : <>(pc[r] = "done")

\* The process has written more output than the stdout pipe holds while
\* none of its input has been read and part of it is still to be sent.
C22_Witness ==
    \E r \in PipeReqs :
        /\ InRun(r)
        /\ pipes[r].wrote > PipeCap
        /\ pipes[r].sent < Len(inputData[r])
        /\ Len(pipes[r].stdin) = pipes[r].sent
        /\ pipes[r].sent = PipeCap

(***************************************************************************)
(* C23.  The steps of a TempFile-mode conversion come in one order.  The   *)
(* output artifact is created only when the input artifact holds the whole *)
(* payload and is closed; the process is spawned only from the point where *)
(* both artifacts exist, the input artifact holding the whole payload, and *)
(* no step has failed; a value is returned only from the output artifact   *)
(* of a process that has exited with status 0.  A conversion that failed   *)
(* to create or to write an artifact has spawned nothing.                  *)
(***************************************************************************)
\* The errors of the steps that come before the process.
SetupErrors ==
    {"error al crear archivo temporal de entrada",
     "error al escribir en archivo temporal",
     "error al crear archivo temporal de salida",
     "error al verificar archivo de entrada"}

\* The input artifact of request r exists and holds the whole payload.
InputWritten(r) ==
    /\ inputPath[r] # NoPath
    /\ fs[inputPath[r]] = File(inputData[r])

C23_TempFileStepsInOrder ==
    /\ [](\A r \in Reqs :
             ioMode[r] = "TempFile" =>
                 /\ pc[r] \in {"createOut", "statIn", "running", "exited"} =>
                        InputWritten(r)
                 /\ pc[r] \in {"statIn", "running", "exited"} =>
                        /\ outputPath[r] # NoPath
                        /\ outputPath[r] # inputPath[r]
                 /\ pc[r] \in {"createIn", "writeIn", "createOut", "statIn"}
                        => spawns[r] = 0 /\ exitStatus[r] = "none"
                 /\ result[r].msg \in SetupErrors => spawns[r] = 0
                 /\ result[r].kind = "ok" =>
                        spawns[r] = 1 /\ exitStatus[r] = "zero")
    /\ [][\A r \in Reqs :
             ioMode'[r] = "TempFile" =>
                 /\ outputPath'[r] # outputPath[r] =>
                        /\ pc[r] = "createOut" /\ InputWritten(r)
                        /\ fs'[outputPath'[r]].exists
                 /\ spawns'[r] # spawns[r] =>
                        /\ pc[r] = "statIn" /\ result[r] = NoResult
                        /\ InputWritten(r)
                        /\ outputPath[r] # NoPath
                 /\ (result[r] = NoResult /\ result'[r].kind = "ok") =>
                        /\ pc[r] = "exited" /\ exitStatus[r] = "zero"
                        /\ result'[r].data = fs[outputPath[r]].data]_vars

\* A TempFile-mode conversion of a non-empty payload has gone through all
\* its steps and returned a value.
C23_Witness ==
    \E r \in Reqs :
        /\ Returned(r) /\ ioMode[r] = "TempFile"
        /\ Len(inputData[r]) > 0
        /\ inputPath[r] # NoPath /\ outputPath[r] # NoPath
        /\ spawns[r] = 1 /\ exitStatus[r] = "zero"
        /\ result[r].kind = "ok"

(***************************************************************************)
(* C24.  Under any interleaving of concurrent TempFile-mode requests, no   *)
(* two requests in flight share an input or output artifact path; so the   *)
(* deferred removals of one request never delete an artifact of another    *)
(* request in flight, and a conversion never returns bytes found at a path *)
(* that is another request's as well.                                      *)
(***************************************************************************)
\* Request r is inside a convert*UsingTempFiles call.
InFlight(r) ==
    /\ ioMode[r] = "TempFile"
    /\ pc[r] \in {"writeIn", "createOut", "statIn", "running", "exited"}

\* The artifact paths request r has created.
ArtifactsOf(r) == {inputPath[r], outputPath[r]} \ {NoPath}

C24_ArtifactPathsDisjoint ==
    \A r, q \in Reqs :
        (r # q /\ InFlight(r) /\ InFlight(q)) =>
            ArtifactsOf(r) \cap ArtifactsOf(q) = {}

(***************************************************************************)
(* C25.  getInputData takes the payload from one channel, the uploaded     *)
(* file before the base64 field before the url field.  With a file in the  *)
(* request the outcome is the file's bytes, or the error of reading it;    *)
(* without one and with a non-empty base64 field it is the decoded bytes,  *)
(* or the error of decoding; the url is fetched only when there is no file *)
(* and the base64 field is empty; with none of the three the handler       *)
(* answers 400.  No error of acquisition is followed by a process.         *)
(***************************************************************************)
\* The key of request r has been accepted and its handler has gone on.
Admitted(r) ==
    /\ pc[r] # "idle"
    /\ ValidateAPIKey(apiKey, request[r].apikey) = 0

\* The handler of request r has answered 400 and spawned nothing.
Refused(r) ==
    pc[r] = "done" /\ response[r] = Handler(400) /\ spawns[r] = 0

\* The handler of request r is fetching, or has fetched, a url.
Fetching(r) == pc[r] \in {"fetching", "fetched"} \/ reply[r] # NoReply

C25_ChannelPriority ==
    [](\A r \in InputReqs :
          Admitted(r) =>
              LET req == request[r] IN
              /\ req.file.kind = "file" =>
                     ~Fetching(r) /\ inputData[r] = req.file.data
              /\ req.file.kind = "unreadable" => Refused(r)
              /\ (req.file = NoFile /\ req.base64.kind = "encoded") =>
                     ~Fetching(r) /\ inputData[r] = req.base64.data
              /\ (req.file = NoFile /\ req.base64 = Garbled) => Refused(r)
              /\ (req.file = NoFile /\ req.base64 = NoField /\ req.url = "")
                     => Refused(r)
              /\ Fetching(r) =>
                     /\ req.file = NoFile /\ req.base64 = NoField
                     /\ req.url # "")
    /\ [][\A r \in InputReqs :
             (pc[r] = "idle" /\ pc'[r] = "done") =>
                 /\ response'[r].code \in {400, 401, 500}
                 /\ spawns'[r] = 0 /\ inputData'[r] = <<>>]_vars

\* A request without a file, carrying a base64 field that does not decode
\* beside a url, has been refused.
C25_Witness ==
    \E r \in InputReqs :
        /\ Admitted(r)
        /\ request[r].file = NoFile /\ request[r].base64 = Garbled
        /\ request[r].url # ""
        /\ Refused(r)

\* A request carrying a file beside a base64 field and a url is being
\* converted from the file.
FileComesFirst ==
    \E r \in InputReqs :
        /\ Admitted(r)
        /\ request[r].file.kind = "file"
        /\ request[r].base64.kind = "encoded"
        /\ request[r].base64.data # request[r].file.data
        /\ request[r].url # ""
        /\ pc[r] = "running" /\ inputData[r] = request[r].file.data

(***************************************************************************)
(* C26.  On the four endpoints nothing is done for a request unless the    *)
(* server has a non-empty API key and the request's apikey header equals   *)
(* it: no payload is acquired, no url fetched, no artifact created, no     *)
(* buffer taken and no process spawned.  Such a request is answered at     *)
(* once, with 500 when no key is configured and with 401 when the header   *)
(* is missing or different.                                                *)
(***************************************************************************)
\* The server has a key and request r carries it.
KeyMatches(r) == apiKey # "" /\ request[r].apikey = apiKey

\* Nothing has been done for request r.
Untouched(r) ==
    /\ inputData[r] = <<>> /\ reply[r] = NoReply
    /\ ioMode[r] = "none" /\ cmdArgs[r] = <<>> /\ spawns[r] = 0
    /\ inputPath[r] = NoPath /\ outputPath[r] = NoPath
    /\ held[r] = NoBufs /\ exitStatus[r] = "none"
    /\ result[r] = NoResult

C26_NothingWithoutTheKey ==
    /\ [](\A r \in Reqs :
             (pc[r] # "idle" /\ ~KeyMatches(r)) =>
                 /\ pc[r] = "done" /\ Untouched(r)
                 /\ response[r]
                        = Handler(IF apiKey = "" THEN 500 ELSE 401))
    /\ [][\A r \in Reqs :
             (pc[r] = "idle" /\ pc'[r] # "idle" /\ ~KeyMatches(r)') =>
                 fs' = fs /\ pool' = pool /\ made' = made]_vars

\* On a server with a key, a gif request with a wrong apikey header has
\* been answered 401 and nothing was done for it.
C26_Witness ==
    \E r \in Reqs :
        /\ pc[r] = "done" /\ endpoint[r] = "gif"
        /\ apiKey = "secret" /\ request[r].apikey = "wrong"
        /\ response[r] = Handler(401)
        /\ Untouched(r)

\* On a server without a key, a request carrying some apikey header has
\* been answered 500.
UnsetKeyAnswers500 ==
    \E r \in Reqs :
        /\ pc[r] = "done" /\ apiKey = "" /\ request[r].apikey = "secret"
        /\ response[r] = Handler(500)

(***************************************************************************)
(* C27.  Every request that reaches a handler is answered once, by the     *)
(* handler itself: while the handler is under way nothing has been         *)
(* written, and at its end the response is one the handler wrote, whether  *)
(* the key was rejected, the acquisition or the conversion failed, the     *)
(* conversion panicked or succeeded.                                       *)
(***************************************************************************)
C27_OneHandlerResponse ==
    \A r \in Reqs :
        /\ pc[r] \notin {"idle", "done"} => response[r] = NoResponse
        /\ pc[r] = "done" =>
               /\ response[r].by = "handler"
               /\ response[r].code \in {200, 400, 401, 500}

====
